---- MODULE Spec2Model ----
(***************************************************************************)
(* Web Activity Tracker: the background session tracker (background.ts)    *)
(* and the StorageManager beneath it (storage/database.ts).                *)
(*                                                                         *)
(* Every `await` of the source is a point where other callbacks may run,   *)
(* so an asynchronous function is modelled as a process whose program      *)
(* counter names the storage request it is waiting for; the synchronous    *)
(* code between two awaits is one atomic step.  `await this.init()` on an  *)
(* opened database changes no state and is folded into the request that    *)
(* follows it.  An object store is a function from the keys present to     *)
(* records; an optional value (T | undefined, T | null) is a sequence of   *)
(* length at most one.  The `days` array of a Tab is a function from the   *)
(* dates present to buckets: the flush path never holds two entries of one *)
(* date, and no operation modelled here depends on the array's order.      *)
(* Dates are UTC day numbers (toISOString().split('T')[0]).  The interval  *)
(* `title` is carried by no operation modelled here and is left out.       *)
(***************************************************************************)
EXTENDS Integers, Sequences, FiniteSets, TLC

VARIABLES
    now,               \* Date.now(), in milliseconds
    advances,          \* how often the clock has advanced (bounds the run)
    currentTab,        \* background.ts currentTab: <<>> is null
    currentStartTime,  \* background.ts currentStartTime: 0 is null
    flights,           \* the saveTimeInterval calls made, in call order
    skipped,           \* saveTimeInterval calls that returned at once
    tabs,              \* object store TabEntity, keyed by url
    intervals,         \* object store TimeIntervalEntity, keyed by id
    limits,            \* object store SiteLimitEntity, keyed by url
    settings,          \* object store SettingEntity, keyed by key
    notifications,     \* chrome.notifications.create calls, in call order
    recalc,            \* the recalculateTabSummary call, if one was made
    port,              \* the export / clear / import sequence of the UI
    session,           \* how many sessions startTracking has opened
    db,                \* StorageManager.db: <<>> is null, else the handle built
    inits              \* the StorageManager operations begun, in call order

vars == <<now, advances, currentTab, currentStartTime, flights, skipped, tabs,
          intervals, limits, settings, notifications, recalc, port, session, db, inits>>

trackerVars == <<currentTab, currentStartTime, session>>
managerVars == <<db, inits>>
storeVars == <<tabs, intervals, limits, settings>>

-----------------------------------------------------------------------------
(* Numbers of the program *)

MsPerSecond == 1000
SecondsPerMinute == 60
MsPerDay == 86400000
periodInMinutes == 1   \* the period of the 'periodicSave' alarm

(* Bounds of the model *)

MaxAdvance == 3        \* clock advances in a behaviour of Spec
MaxAdvanceSeq == 5     \* clock advances in a behaviour of SpecSeq
MaxFlights == 2        \* saveTimeInterval calls that reach storage, Spec
MaxFlightsSeq == 3     \* the same, SpecSeq
MaxSkipped == 2        \* saveTimeInterval calls that return at once
MaxInits == 3          \* StorageManager operations begun, SpecOptions

\* The clock starts 500 s before UTC midnight, so that a run has flushes on
\* both sides of a date change.
ClockStart == MsPerDay - 500000

\* How far the clock moves between two events: a focus flicker, a few
\* minutes of browsing.
Deltas == {400, 200000}

\* The same on the scale of the periodic alarm: half a period, one period,
\* one and a half.
TrackDeltas == {30000, 60000, 90000}

\* background.ts:226: the time between two periodic ticks, in milliseconds.
FlushInterval == periodInMinutes * SecondsPerMinute * MsPerSecond

Sites == {"a.com", "b.com"}

\* The url of a tab that has none (undefined, or the empty string).
NoUrl == [protocol |-> "", hostname |-> "", pathname |-> ""]

\* chrome.tabs.Tab values the browser hands to the listeners.
ChromeTabs ==
    { [id |-> 1, url |-> [protocol |-> "https:", hostname |-> "a.com", pathname |-> "/x"],
       favIconUrl |-> <<>>],
      [id |-> 2, url |-> [protocol |-> "https:", hostname |-> "b.com", pathname |-> "/"],
       favIconUrl |-> <<>>],
      [id |-> 3, url |-> [protocol |-> "chrome:", hostname |-> "newtab", pathname |-> "/"],
       favIconUrl |-> <<>>],
      [id |-> 4, url |-> NoUrl, favIconUrl |-> <<>>] }

-----------------------------------------------------------------------------
(* Pure functions of background.ts *)

getCurrentDate == now \div MsPerDay

normalizeUrl(url) == url.hostname

Duration(startTime, endTime) == (endTime - startTime) \div MsPerSecond

generateId(n) == [t |-> now, r |-> n]

Opt(f, k) == IF k \in DOMAIN f THEN <<f[k]>> ELSE <<>>

Put(f, k, v) == [x \in DOMAIN f \cup {k} |-> IF x = k THEN v ELSE f[x]]

Remove(f, k) == [x \in DOMAIN f \ {k} |-> f[x]]

EmptyStore == [x \in {} |-> x]

RECURSIVE SumOver(_, _, _)
SumOver(f, S, field) ==
    IF S = {} THEN 0
    ELSE LET k == CHOOSE x \in S : TRUE
         IN  f[k][field] + SumOver(f, S \ {k}, field)


-----------------------------------------------------------------------------
(* The flush: saveTimeInterval -> updateTabSummary -> checkSiteLimit *)

\* saveTimeInterval discarding only negative durations.
SkipIntervalBelowZero(tabInfo, duration) == duration < 0

\* background.ts:54-55, the early returns of saveTimeInterval; every tab the
\* tracker holds has an id and a url.
SkipInterval(tabInfo, duration) == duration < 1

\* background.ts:57-66, the interval object; n is the random part of the id.
NewInterval(tabInfo, startTime, endTime, n) ==
    [id |-> <<generateId(n)>>,
     tabId |-> <<normalizeUrl(tabInfo.url)>>,
     url |-> <<normalizeUrl(tabInfo.url)>>,
     startTime |-> <<startTime>>,
     endTime |-> <<endTime>>,
     duration |-> Duration(startTime, endTime),
     date |-> <<getCurrentDate>>]

NoBucket == [counter |-> 0, summary |-> 0]

\* background.ts:85-111: the aggregate as updateTabSummary changes it in
\* memory, from what getTab returned (tab: <<>> when there is no record).
UpdatedTab(tab, tabInfo, additionalTime, today) ==
    LET t0 == IF tab = <<>>
              THEN [url |-> normalizeUrl(tabInfo.url),
                    favicon |-> tabInfo.favIconUrl,
                    summaryTime |-> 0, counter |-> 0, days |-> EmptyStore]
              ELSE tab[1]
        todayData == IF today \in DOMAIN t0.days THEN t0.days[today] ELSE NoBucket
    IN  [t0 EXCEPT !.summaryTime = @ + additionalTime,
                   !.counter = @ + 1,
                   !.days = Put(@, today,
                                [counter |-> todayData.counter + 1,
                                 summary |-> todayData.summary + additionalTime])]

\* database.ts:616-634: the entity saveOrUpdateTab writes, from the tab it was
\* given and the record it read (existing: <<>> when there is none).
MergedEntity(tab, existing) ==
    IF existing = <<>> THEN tab
    ELSE LET e == existing[1]
         IN  [tab EXCEPT
                !.summaryTime = e.summaryTime + tab.summaryTime,
                !.counter = e.counter + tab.counter,
                !.days = [d \in DOMAIN tab.days |->
                            IF d \in DOMAIN e.days
                            THEN [counter |-> e.days[d].counter + tab.days[d].counter,
                                  summary |-> e.days[d].summary + tab.days[d].summary]
                            ELSE tab.days[d]]]

\* background.ts:127-129: whether checkSiteLimit goes on to notify and block.
LimitReached(limit, todayTime) ==
    /\ limit # <<>>
    /\ limit[1].enabled
    /\ todayTime \div SecondsPerMinute >= limit[1].dailyLimit

\* background.ts:132.
NotificationsOn == ~("notifications" \in DOMAIN settings /\ settings["notifications"] = FALSE)

NewFlight(tabInfo, startTime, endTime, n) ==
    [pc |-> "saveTimeInterval",
     tabInfo |-> tabInfo,
     interval |-> NewInterval(tabInfo, startTime, endTime, n),
     tab |-> <<>>, today |-> 0, entity |-> <<>>, limit |-> <<>>,
     session |-> session, error |-> <<>>]

\* The call saveTimeInterval(tabInfo, startTime, endTime) up to its first await.
SaveTimeIntervalCall(tabInfo, startTime, endTime) ==
    IF SkipInterval(tabInfo, Duration(startTime, endTime))
    THEN /\ skipped' = skipped + 1
         /\ flights' = flights
    ELSE /\ skipped' = skipped
         /\ flights' = Append(flights,
                              NewFlight(tabInfo, startTime, endTime, Len(flights) + 1))

Tracking == currentTab # <<>> /\ currentStartTime # 0

WouldFlush == Tracking /\ ~SkipInterval(currentTab[1], Duration(currentStartTime, now))

\* database.ts:671-675
FlushAppend(i) ==
    /\ flights[i].pc = "saveTimeInterval"
    /\ intervals' = Put(intervals, flights[i].interval.id[1], flights[i].interval)
    /\ flights' = [flights EXCEPT ![i].pc = "getTab"]
    /\ UNCHANGED <<managerVars, now, advances, trackerVars, skipped, tabs, limits, settings,
                   notifications, recalc, port>>

\* background.ts:82 with database.ts:639-651
FlushGetTab(i) ==
    /\ flights[i].pc = "getTab"
    /\ flights' = [flights EXCEPT ![i].pc = "updateTabSummary",
                                  ![i].tab = Opt(tabs, normalizeUrl(flights[i].tabInfo.url))]
    /\ UNCHANGED <<managerVars, now, advances, trackerVars, skipped, storeVars, notifications,
                   recalc, port>>

\* background.ts:83-111, up to the call of saveOrUpdateTab
FlushUpdateTabSummary(i) ==
    /\ flights[i].pc = "updateTabSummary"
    /\ flights' = [flights EXCEPT
                     ![i].pc = "saveOrUpdateTab",
                     ![i].today = getCurrentDate,
                     ![i].tab = <<UpdatedTab(flights[i].tab, flights[i].tabInfo,
                                             flights[i].interval.duration, getCurrentDate)>>]
    /\ UNCHANGED <<managerVars, now, advances, trackerVars, skipped, storeVars, notifications,
                   recalc, port>>

\* database.ts:612-634: the read of the existing record and the merge; the
\* merged entity replaces the flight's copy only in the store's eyes, the
\* caller's todayData keeps the value of background.ts:110.
FlushReadExisting(i) ==
    /\ flights[i].pc = "saveOrUpdateTab"
    /\ flights' = [flights EXCEPT
                     ![i].pc = "updateTab",
                     ![i].entity = <<MergedEntity(flights[i].tab[1],
                                        Opt(tabs, flights[i].tab[1].url))>>]
    /\ UNCHANGED <<managerVars, now, advances, trackerVars, skipped, storeVars, notifications,
                   recalc, port>>

\* database.ts:636
FlushUpdateTab(i) ==
    /\ flights[i].pc = "updateTab"
    /\ tabs' = Put(tabs, flights[i].entity[1].url, flights[i].entity[1])
    /\ flights' = [flights EXCEPT ![i].pc = "getSiteLimit", ![i].entity = <<>>]
    /\ UNCHANGED <<managerVars, now, advances, trackerVars, skipped, intervals, limits, settings,
                   notifications, recalc, port>>

\* todayData.summary of background.ts:117, the argument of checkSiteLimit.
TodayTime(f) == f.tab[1].days[f.today].summary

Finished(f) == [f EXCEPT !.pc = "done", !.tab = <<>>, !.entity = <<>>, !.limit = <<>>]

\* checkSiteLimit lifting the block when the day's time is under the limit.
FlushGetSiteLimitResetting(i) ==
    LET url == normalizeUrl(flights[i].tabInfo.url)
        limit == Opt(limits, url)
        reached == LimitReached(limit, TodayTime(flights[i]))
    IN  /\ flights[i].pc = "getSiteLimit"
        /\ flights' = [flights EXCEPT
                         ![i] = IF reached
                                THEN [@ EXCEPT !.pc = "getAllSettings", !.limit = limit]
                                ELSE Finished(@)]
        /\ limits' = IF ~reached /\ limit # <<>>
                     THEN Put(limits, url, [limit[1] EXCEPT !.blocked = FALSE])
                     ELSE limits
        /\ UNCHANGED <<managerVars, now, advances, trackerVars, skipped, tabs, intervals,
                       settings, notifications, recalc, port>>

\* background.ts:126-129 with database.ts:734-744
FlushGetSiteLimit(i) ==
    LET limit == Opt(limits, normalizeUrl(flights[i].tabInfo.url))
    IN  /\ flights[i].pc = "getSiteLimit"
        /\ flights' = [flights EXCEPT
                         ![i] = IF LimitReached(limit, TodayTime(flights[i]))
                                THEN [@ EXCEPT !.pc = "getAllSettings", !.limit = limit]
                                ELSE Finished(@)]
        /\ UNCHANGED <<managerVars, now, advances, trackerVars, skipped, storeVars, notifications,
                       recalc, port>>

\* background.ts:131-140 with database.ts:772-783
FlushGetAllSettings(i) ==
    /\ flights[i].pc = "getAllSettings"
    /\ notifications' =
          IF NotificationsOn
          THEN Append(notifications,
                      [url |-> normalizeUrl(flights[i].tabInfo.url),
                       date |-> flights[i].today, flight |-> i])
          ELSE notifications
    /\ flights' = [flights EXCEPT ![i].pc = "saveSiteLimit"]
    /\ UNCHANGED <<managerVars, now, advances, trackerVars, skipped, storeVars, recalc, port>>

\* background.ts:143-146 with database.ts:728-732
FlushSaveSiteLimit(i) ==
    /\ flights[i].pc = "saveSiteLimit"
    /\ limits' = Put(limits, flights[i].limit[1].url,
                     [flights[i].limit[1] EXCEPT !.blocked = TRUE])
    /\ flights' = [flights EXCEPT ![i] = Finished(@)]
    /\ UNCHANGED <<managerVars, now, advances, trackerVars, skipped, tabs, intervals, settings,
                   notifications, recalc, port>>

\* saveTimeInterval letting the error out of its promise.
Rethrow(f, error) == [Finished(f) EXCEPT !.pc = "rejected", !.error = <<error>>]

\* background.ts:71-73 and 118-120: an error thrown by an awaited storage
\* request is caught and logged, and the function returns.
Catch(f, error) == [Finished(f) EXCEPT !.error = <<error>>]

\* The append rejecting and saveTimeInterval going on to updateTabSummary.
FlushAppendFailsThenMerges(i) ==
    /\ flights[i].pc = "saveTimeInterval"
    /\ flights' = [flights EXCEPT ![i].pc = "getTab", ![i].error = <<"saveTimeInterval">>]
    /\ UNCHANGED <<managerVars, now, advances, trackerVars, skipped, storeVars,
                   notifications, recalc, port>>

\* database.ts:671-675 rejecting: the interval is not stored, and the catch
\* of saveTimeInterval skips updateTabSummary.
FlushAppendFails(i) ==
    /\ flights[i].pc = "saveTimeInterval"
    /\ flights' = [flights EXCEPT ![i] = Catch(@, "saveTimeInterval")]
    /\ UNCHANGED <<managerVars, now, advances, trackerVars, skipped, storeVars,
                   notifications, recalc, port>>

\* database.ts:636 rejecting: the aggregate is not written, and the catch of
\* updateTabSummary skips checkSiteLimit.
FlushUpdateTabFails(i) ==
    /\ flights[i].pc = "updateTab"
    /\ flights' = [flights EXCEPT ![i] = Catch(@, "saveOrUpdateTab")]
    /\ UNCHANGED <<managerVars, now, advances, trackerVars, skipped, storeVars,
                   notifications, recalc, port>>

FlushFails(i) ==
    \/ FlushAppendFails(i)
    \/ FlushUpdateTabFails(i)

FlushStep(i) ==
    \/ FlushAppend(i)
    \/ FlushGetTab(i)
    \/ FlushUpdateTabSummary(i)
    \/ FlushReadExisting(i)
    \/ FlushUpdateTab(i)
    \/ FlushGetSiteLimit(i)
    \/ FlushGetAllSettings(i)
    \/ FlushSaveSiteLimit(i)

-----------------------------------------------------------------------------
(* The tracker: startTracking, stopTracking and the listeners *)

\* startTracking turning no tab away.
IgnoresNothing(tab) == FALSE

\* background.ts:156
Ignored(tab) ==
    \/ tab.url = NoUrl
    \/ tab.url.protocol \in {"chrome:", "about:", "chrome-extension:"}

\* background.ts:170-179; the primed tracker is the state it leaves.
stopTracking ==
    /\ IF Tracking
       THEN SaveTimeIntervalCall(currentTab[1], currentStartTime, now)
       ELSE UNCHANGED <<flights, skipped>>
    /\ currentTab' = <<>>
    /\ currentStartTime' = 0
    /\ session' = session

\* background.ts:155-167
startTracking(tab) ==
    IF Ignored(tab)
    THEN UNCHANGED <<trackerVars, flights, skipped>>
    ELSE /\ IF Tracking
            THEN SaveTimeIntervalCall(currentTab[1], currentStartTime, now)
            ELSE UNCHANGED <<flights, skipped>>
         /\ currentTab' = <<tab>>
         /\ currentStartTime' = now
         /\ session' = session + 1

\* The activation listeners flushing the old session under the new tab.
OnActivatedFlushingNewTab(tab) ==
    /\ IF Ignored(tab)
       THEN stopTracking
       ELSE /\ IF Tracking
               THEN SaveTimeIntervalCall(tab, currentStartTime, now)
               ELSE UNCHANGED <<flights, skipped>>
            /\ currentTab' = <<tab>>
            /\ currentStartTime' = now
            /\ session' = session + 1
    /\ UNCHANGED <<managerVars, now, advances, storeVars, notifications, recalc, port>>

\* background.ts:182-198: stopTracking(); startTracking(tab), run together
\* by onActivated (after chrome.tabs.get) and by onUpdated.
OnActivated(tab) ==
    /\ IF Ignored(tab)
       THEN stopTracking
       ELSE /\ IF Tracking
               THEN SaveTimeIntervalCall(currentTab[1], currentStartTime, now)
               ELSE UNCHANGED <<flights, skipped>>
            /\ currentTab' = <<tab>>
            /\ currentStartTime' = now
            /\ session' = session + 1
    /\ UNCHANGED <<managerVars, now, advances, storeVars, notifications, recalc, port>>

\* The focus listener flushing the session and keeping it open, as a tick does.
OnFocusLostRolling ==
    /\ IF Tracking
       THEN /\ SaveTimeIntervalCall(currentTab[1], currentStartTime, now)
            /\ currentStartTime' = now
       ELSE UNCHANGED <<flights, skipped, currentStartTime>>
    /\ UNCHANGED <<managerVars, now, advances, currentTab, session, storeVars,
                   notifications, recalc, port>>

\* background.ts:202-204
OnFocusLost ==
    /\ stopTracking
    /\ UNCHANGED <<managerVars, now, advances, storeVars, notifications, recalc, port>>

\* background.ts:206-214
OnFocusGained(tab) ==
    /\ startTracking(tab)
    /\ UNCHANGED <<managerVars, now, advances, storeVars, notifications, recalc, port>>

\* The removal listener closing the session whichever tab was removed.
OnRemovedAnyTab(tabId) ==
    /\ currentTab # <<>>
    /\ stopTracking
    /\ UNCHANGED <<managerVars, now, advances, storeVars, notifications, recalc, port>>

\* background.ts:219-223
OnRemoved(tabId) ==
    /\ currentTab # <<>>
    /\ currentTab[1].id = tabId
    /\ stopTracking
    /\ UNCHANGED <<managerVars, now, advances, storeVars, notifications, recalc, port>>

\* The alarm listener saving the accumulated time without moving the start.
OnAlarmWithoutReset ==
    /\ Tracking
    /\ SaveTimeIntervalCall(currentTab[1], currentStartTime, now)
    /\ UNCHANGED <<managerVars, now, advances, trackerVars, storeVars,
                   notifications, recalc, port>>

\* The alarm listener closing the session as stopTracking does.
OnAlarmClosing ==
    /\ Tracking
    /\ stopTracking
    /\ UNCHANGED <<managerVars, now, advances, storeVars, notifications, recalc, port>>

\* background.ts:228-236
OnAlarm ==
    /\ Tracking
    /\ SaveTimeIntervalCall(currentTab[1], currentStartTime, now)
    /\ currentStartTime' = now
    /\ UNCHANGED <<managerVars, now, advances, currentTab, session, storeVars,
                   notifications, recalc, port>>

Signal ==
    \/ \E tab \in ChromeTabs : OnActivated(tab)
    \/ \E tab \in ChromeTabs : OnFocusGained(tab)
    \/ OnFocusLost
    \/ \E tab \in ChromeTabs : OnRemoved(tab.id)
    \/ OnAlarm

\* Time passes.
Advance(d) ==
    /\ now' = now + d
    /\ advances' = advances + 1
    /\ UNCHANGED <<managerVars, trackerVars, flights, skipped, storeVars, notifications,
                   recalc, port>>

-----------------------------------------------------------------------------
(* StorageManager operations called from the pages *)

Range(f) == {f[k] : k \in DOMAIN f}

RECURSIVE SumDuration(_)
SumDuration(S) ==
    IF S = {} THEN 0
    ELSE LET iv == CHOOSE x \in S : TRUE
         IN  iv.duration + SumDuration(S \ {iv})

\* database.ts:806: findByIndex('tabId', url)
IntervalsByTab(url) == {iv \in Range(intervals) : iv.tabId = <<url>>}

\* database.ts:812-834: the record recalculateTabSummary writes, from the
\* record it read and the intervals it found.
Recalculated(tab, ivs) ==
    [tab EXCEPT
       !.summaryTime = SumDuration(ivs),
       !.counter = Cardinality(ivs),
       !.days = [d \in {iv.date[1] : iv \in ivs} |->
                   [counter |-> Cardinality({iv \in ivs : iv.date = <<d>>}),
                    summary |-> SumDuration({iv \in ivs : iv.date = <<d>>})]]]

NoRecalc == [pc |-> "idle", url |-> "", intervals |-> {}, tab |-> <<>>]

\* database.ts:803-804: the call, up to the first storage request.
RecalculateCall(url) ==
    /\ recalc.pc \in {"idle", "done"}
    /\ recalc' = [NoRecalc EXCEPT !.pc = "findByIndex", !.url = url]
    /\ UNCHANGED <<managerVars, now, advances, trackerVars, flights, skipped, storeVars,
                   notifications, port>>

\* database.ts:806-807
RecalculateFind ==
    /\ recalc.pc = "findByIndex"
    /\ recalc' = IF IntervalsByTab(recalc.url) = {}
                 THEN [recalc EXCEPT !.pc = "done"]
                 ELSE [recalc EXCEPT !.pc = "read", !.intervals = IntervalsByTab(recalc.url)]
    /\ UNCHANGED <<managerVars, now, advances, trackerVars, flights, skipped, storeVars,
                   notifications, port>>

\* database.ts:809-834
RecalculateRead ==
    /\ recalc.pc = "read"
    /\ recalc' = IF Opt(tabs, recalc.url) = <<>>
                 THEN [recalc EXCEPT !.pc = "done", !.intervals = {}]
                 ELSE [recalc EXCEPT
                         !.pc = "update", !.intervals = {},
                         !.tab = <<Recalculated(tabs[recalc.url], recalc.intervals)>>]
    /\ UNCHANGED <<managerVars, now, advances, trackerVars, flights, skipped, storeVars,
                   notifications, port>>

\* database.ts:836
RecalculateUpdate ==
    /\ recalc.pc = "update"
    /\ tabs' = Put(tabs, recalc.tab[1].url, recalc.tab[1])
    /\ recalc' = [recalc EXCEPT !.pc = "done", !.tab = <<>>]
    /\ UNCHANGED <<managerVars, now, advances, trackerVars, flights, skipped, intervals, limits,
                   settings, notifications, port>>

RecalculateStep ==
    \/ RecalculateFind
    \/ RecalculateRead
    \/ RecalculateUpdate

\* database.ts:665-668
DeleteTab(url) ==
    /\ url \in DOMAIN tabs
    /\ tabs' = Remove(tabs, url)
    /\ UNCHANGED <<managerVars, now, advances, trackerVars, flights, skipped, intervals, limits,
                   settings, notifications, recalc, port>>

\* database.ts:722-725
DeleteTimeInterval(id) ==
    /\ id \in DOMAIN intervals
    /\ intervals' = Remove(intervals, id)
    /\ UNCHANGED <<managerVars, now, advances, trackerVars, flights, skipped, tabs, limits,
                   settings, notifications, recalc, port>>

\* The limits a caller saves: ten minutes a day for a.com.
LimitInputs ==
    { [url |-> "a.com", dailyLimit |-> 10, enabled |-> TRUE, blocked |-> FALSE] }

\* database.ts:728-732
SaveSiteLimit(limit) ==
    /\ Opt(limits, limit.url) # <<limit>>
    /\ limits' = Put(limits, limit.url, limit)
    /\ UNCHANGED <<managerVars, now, advances, trackerVars, flights, skipped, tabs, intervals,
                   settings, notifications, recalc, port>>

\* The limits a user sets while the tracker runs: five or ten minutes a day
\* for a.com.
LimitEdits ==
    LimitInputs \cup { [url |-> "a.com", dailyLimit |-> 5, enabled |-> TRUE, blocked |-> FALSE] }

\* database.ts:757-760
DeleteSiteLimit(url) ==
    /\ url \in DOMAIN limits
    /\ limits' = Remove(limits, url)
    /\ UNCHANGED <<managerVars, now, advances, trackerVars, flights, skipped, tabs, intervals,
                   settings, notifications, recalc, port>>

\* A limit write or delete issued from the limits page.
UserLimitStep ==
    \/ \E limit \in LimitEdits : SaveSiteLimit(limit)
    \/ \E url \in Sites : DeleteSiteLimit(url)

-----------------------------------------------------------------------------
(* StorageManager.init and the limits form *)

\* database.ts:592-601 as it runs inside an operation: `await this.init()`
\* calls Database.build when db is null and waits for it, and otherwise
\* resumes the operation at once.  built records that this call opened the
\* database; then is the site limit the operation goes on to store (<<>> for
\* an operation that stores nothing: initializeStorage, a read).
NewInit(then) ==
    [pc |-> IF db = <<>> THEN "build" ELSE "ready", built |-> db = <<>>, then |-> then]

\* An operation of the StorageManager begins.
InitCall(then) ==
    /\ inits' = Append(inits, NewInit(then))
    /\ UNCHANGED <<db, now, advances, trackerVars, flights, skipped, storeVars,
                   notifications, recalc, port>>

\* database.ts:594: Database.build resolves and init assigns this.db.
InitBuilt(i) ==
    /\ inits[i].pc = "build"
    /\ db' = <<i>>
    /\ inits' = [inits EXCEPT ![i].pc = "ready"]
    /\ UNCHANGED <<now, advances, trackerVars, flights, skipped, storeVars,
                   notifications, recalc, port>>

\* database.ts:729-731: the operation after init, here saveSiteLimit's update.
InitContinue(i) ==
    /\ inits[i].pc = "ready"
    /\ inits' = [inits EXCEPT ![i].pc = "done"]
    /\ limits' = IF inits[i].then = <<>> THEN limits
                 ELSE Put(limits, inits[i].then[1].url, inits[i].then[1])
    /\ UNCHANGED <<db, now, advances, trackerVars, flights, skipped, tabs, intervals,
                   settings, notifications, recalc, port>>

\* background.ts:9-16: initializeStorage, called on load, on install and on
\* startup.
InitializeStorage == InitCall(<<>>)

\* privacy.md:299-311 (utils/helpers): the text gets 'https://' in front when
\* it has no http scheme, and URL.toString() of the result is returned, or ''
\* when it does not parse.
sanitizeUrl(url) ==
    IF url.hostname = "" THEN ""
    ELSE (IF url.protocol \in {"http:", "https:"} THEN url.protocol ELSE "https:")
         \o "//" \o url.hostname \o (IF url.pathname = "" THEN "/" ELSE url.pathname)

\* What the user types into the form's url field: a bare host, a page
\* address, nothing that parses.
FormUrls ==
    { [protocol |-> "", hostname |-> "a.com", pathname |-> ""],
      [protocol |-> "https:", hostname |-> "a.com", pathname |-> "/x"],
      [protocol |-> "", hostname |-> "", pathname |-> ""] }

FormValues == [url : FormUrls, dailyLimit : {10}, enabled : {TRUE}]

\* SiteLimits.tsx:54-75 for a new limit, up to storageManager.saveSiteLimit
\* (addSiteLimit of the useSiteLimits hook).
HandleSubmit(values) ==
    IF sanitizeUrl(values.url) = ""
    THEN UNCHANGED vars
    ELSE InitCall(<<[url |-> sanitizeUrl(values.url), dailyLimit |-> values.dailyLimit,
                     enabled |-> values.enabled, blocked |-> FALSE]>>)

-----------------------------------------------------------------------------
(* exportData, clearAllData and importData *)

EmptyDoc == [tabs |-> {}, timeIntervals |-> {}, siteLimits |-> {}, settings |-> EmptyStore]

\* The page's call sequence: pc is the request awaited, doc the document
\* exported or being imported, pending the records of the collection being
\* imported whose put has not completed, failed whether a put of it was
\* rejected, exported whether doc came from exportData, original the
\* aggregate store as exportData read it, before the flushes that had
\* completed when clearAllData was called.
NoPort ==
    [pc |-> "idle", doc |-> EmptyDoc, pending |-> {}, failed |-> FALSE,
     exported |-> FALSE, original |-> EmptyStore, before |-> {}]

\* getAllTabs leaving the days out of the objects it returns.
TabToInterfaceWithoutDays(e) ==
    [url |-> e.url, favicon |-> e.favicon, summaryTime |-> e.summaryTime,
     counter |-> e.counter, days |-> EmptyStore]

\* database.ts:656-662, the object getAllTabs makes of a stored entity.
TabToInterface(e) ==
    [url |-> e.url, favicon |-> e.favicon, summaryTime |-> e.summaryTime,
     counter |-> e.counter, days |-> e.days]

\* database.ts:455-457 (TabEntity.fromInterface), the entity saveTab stores.
TabFromInterface(tab) ==
    [url |-> tab.url, favicon |-> tab.favicon, summaryTime |-> tab.summaryTime,
     counter |-> tab.counter, days |-> tab.days]

\* database.ts:710-719
IntervalToInterface(e) ==
    [id |-> e.id, tabId |-> e.tabId, url |-> e.url, startTime |-> e.startTime,
     endTime |-> e.endTime, duration |-> e.duration, date |-> e.date]

\* database.ts:498-509 (TimeIntervalEntity.fromInterface)
IntervalFromInterface(iv) ==
    [id |-> iv.id, tabId |-> iv.tabId, url |-> iv.url, startTime |-> iv.startTime,
     endTime |-> iv.endTime, duration |-> iv.duration, date |-> iv.date]

\* database.ts:749-754
LimitToInterface(e) ==
    [url |-> e.url, dailyLimit |-> e.dailyLimit, enabled |-> e.enabled,
     blocked |-> e.blocked]

\* Repo.update is IndexedDB's put: it rejects a record that has no value at
\* the store's key path and stores every other record, indexed or not.
PutRejects(key) == key = <<>>

\* privacy.md:289-297
validateTimeInterval(interval) ==
    /\ interval.id # <<>>
    /\ interval.tabId # <<>>
    /\ interval.url # <<>>
    /\ interval.startTime # <<>>
    /\ interval.date # <<>>

\* database.ts:839-846
ExportCall ==
    /\ port.pc = "idle"
    /\ port' = [port EXCEPT !.pc = "getAllTabs"]
    /\ UNCHANGED <<managerVars, now, advances, trackerVars, flights, skipped, storeVars,
                   notifications, recalc>>

\* database.ts:846 with 653-663
ExportGetAllTabs ==
    /\ port.pc = "getAllTabs"
    /\ port' = [port EXCEPT !.pc = "getAllTimeIntervals",
                            !.doc.tabs = {TabToInterface(e) : e \in Range(tabs)},
                            !.exported = TRUE,
                            !.original = tabs]
    /\ UNCHANGED <<managerVars, now, advances, trackerVars, flights, skipped, storeVars,
                   notifications, recalc>>

\* database.ts:847 with 707-720
ExportGetAllTimeIntervals ==
    /\ port.pc = "getAllTimeIntervals"
    /\ port' = [port EXCEPT !.pc = "getAllSiteLimits",
                            !.doc.timeIntervals =
                                {IntervalToInterface(e) : e \in Range(intervals)}]
    /\ UNCHANGED <<managerVars, now, advances, trackerVars, flights, skipped, storeVars,
                   notifications, recalc>>

\* database.ts:848 with 746-755
ExportGetAllSiteLimits ==
    /\ port.pc = "getAllSiteLimits"
    /\ port' = [port EXCEPT !.pc = "getAllSettings",
                            !.doc.siteLimits = {LimitToInterface(e) : e \in Range(limits)}]
    /\ UNCHANGED <<managerVars, now, advances, trackerVars, flights, skipped, storeVars,
                   notifications, recalc>>

\* database.ts:849 with 772-783
ExportGetAllSettings ==
    /\ port.pc = "getAllSettings"
    /\ port' = [port EXCEPT !.pc = "exported", !.doc.settings = settings]
    /\ UNCHANGED <<managerVars, now, advances, trackerVars, flights, skipped, storeVars,
                   notifications, recalc>>

\* database.ts:786-790
ClearTabs ==
    /\ port.pc = "exported"
    /\ tabs' = EmptyStore
    /\ port' = [port EXCEPT !.pc = "clearTimeIntervals",
                            !.before = {i \in 1..Len(flights) : flights[i].pc = "done"}]
    /\ UNCHANGED <<managerVars, now, advances, trackerVars, flights, skipped, intervals, limits,
                   settings, notifications, recalc>>

\* database.ts:791
ClearTimeIntervals ==
    /\ port.pc = "clearTimeIntervals"
    /\ intervals' = EmptyStore
    /\ port' = [port EXCEPT !.pc = "clearSiteLimits"]
    /\ UNCHANGED <<managerVars, now, advances, trackerVars, flights, skipped, tabs, limits,
                   settings, notifications, recalc>>

\* database.ts:792
ClearSiteLimits ==
    /\ port.pc = "clearSiteLimits"
    /\ limits' = EmptyStore
    /\ port' = [port EXCEPT !.pc = "clearSettings"]
    /\ UNCHANGED <<managerVars, now, advances, trackerVars, flights, skipped, tabs, intervals,
                   settings, notifications, recalc>>

\* database.ts:793
ClearSettings ==
    /\ port.pc = "clearSettings"
    /\ settings' = EmptyStore
    /\ port' = [port EXCEPT !.pc = "cleared"]
    /\ UNCHANGED <<managerVars, now, advances, trackerVars, flights, skipped, tabs, intervals,
                   limits, notifications, recalc>>

\* Documents a user imports from a file: one aggregate, one limit, one
\* setting, a complete interval and an interval without its date; the second
\* document also holds an interval without its id; the third holds one
\* interval under the id the tracker gives to its first flush after 200 s,
\* with a duration of its own.
FileInterval(id, date) ==
    [id |-> id, tabId |-> <<"a.com">>, url |-> <<"a.com">>,
     startTime |-> <<ClockStart>>, endTime |-> <<ClockStart + 60000>>,
     duration |-> 60, date |-> date]

FileDoc(timeIntervals) ==
    [tabs |-> { [url |-> "a.com", favicon |-> <<>>, summaryTime |-> 120, counter |-> 2,
                 days |-> (0 :> [counter |-> 2, summary |-> 120])] },
     timeIntervals |-> timeIntervals,
     siteLimits |-> { [url |-> "a.com", dailyLimit |-> 10, enabled |-> TRUE,
                       blocked |-> FALSE] },
     settings |-> ("notifications" :> FALSE)]

FileDocs ==
    { FileDoc({ FileInterval(<<[t |-> ClockStart, r |-> 1]>>, <<0>>),
                FileInterval(<<[t |-> ClockStart, r |-> 2]>>, <<>>) }),
      FileDoc({ FileInterval(<<[t |-> ClockStart, r |-> 1]>>, <<0>>),
                FileInterval(<<[t |-> ClockStart, r |-> 2]>>, <<>>),
                FileInterval(<<>>, <<0>>) }),
      FileDoc({ FileInterval(<<[t |-> ClockStart + 200000, r |-> 1]>>, <<0>>) }) }

\* database.ts:853-862: the call, up to the puts of data.tabs.  The page
\* imports the document it exported into the cleared store, or a file.
ImportCall(doc) ==
    /\ \/ port.pc = "cleared" /\ doc = port.doc
       \/ port.pc = "idle" /\ doc \in FileDocs
    /\ port' = [port EXCEPT !.pc = "saveTab", !.doc = doc, !.pending = doc.tabs,
                            !.failed = FALSE]
    /\ UNCHANGED <<managerVars, now, advances, trackerVars, flights, skipped, storeVars,
                   notifications, recalc>>

\* database.ts:604-608, one of the calls of line 862
ImportSaveTab(tab) ==
    /\ port.pc = "saveTab"
    /\ tab \in port.pending
    /\ tabs' = Put(tabs, tab.url, TabFromInterface(tab))
    /\ port' = [port EXCEPT !.pending = @ \ {tab}]
    /\ UNCHANGED <<managerVars, now, advances, trackerVars, flights, skipped, intervals, limits,
                   settings, notifications, recalc>>

\* database.ts:671-675, one of the calls of line 866
ImportSaveTimeInterval(interval) ==
    /\ port.pc = "saveTimeInterval"
    /\ interval \in port.pending
    /\ IF PutRejects(interval.id)
       THEN /\ port' = [port EXCEPT !.pending = @ \ {interval}, !.failed = TRUE]
            /\ UNCHANGED intervals
       ELSE /\ port' = [port EXCEPT !.pending = @ \ {interval}]
            /\ intervals' = Put(intervals, interval.id[1], IntervalFromInterface(interval))
    /\ UNCHANGED <<managerVars, now, advances, trackerVars, flights, skipped, tabs, limits,
                   settings, notifications, recalc>>

\* database.ts:728-732, one of the calls of line 870
ImportSaveSiteLimit(limit) ==
    /\ port.pc = "saveSiteLimit"
    /\ limit \in port.pending
    /\ limits' = Put(limits, limit.url, LimitToInterface(limit))
    /\ port' = [port EXCEPT !.pending = @ \ {limit}]
    /\ UNCHANGED <<managerVars, now, advances, trackerVars, flights, skipped, tabs, intervals,
                   settings, notifications, recalc>>

\* database.ts:796-800, one of the calls of line 875
ImportSaveSetting(key) ==
    /\ port.pc = "saveSetting"
    /\ key \in port.pending
    /\ settings' = Put(settings, key, port.doc.settings[key])
    /\ port' = [port EXCEPT !.pending = @ \ {key}]
    /\ UNCHANGED <<managerVars, now, advances, trackerVars, flights, skipped, tabs, intervals,
                   limits, notifications, recalc>>

\* database.ts:862-877: each `await Promise.all(...)` resumes when the puts of
\* its collection have completed, with the next collection, or throws out of
\* importData when one of them was rejected.
ImportAwait ==
    /\ port.pc \in {"saveTab", "saveTimeInterval", "saveSiteLimit", "saveSetting"}
    /\ port.pending = {}
    /\ port' =
         IF port.failed THEN [port EXCEPT !.pc = "rejected"]
         ELSE CASE port.pc = "saveTab" ->
                     [port EXCEPT !.pc = "saveTimeInterval",
                                  !.pending = port.doc.timeIntervals]
                [] port.pc = "saveTimeInterval" ->
                     [port EXCEPT !.pc = "saveSiteLimit", !.pending = port.doc.siteLimits]
                [] port.pc = "saveSiteLimit" ->
                     [port EXCEPT !.pc = "saveSetting",
                                  !.pending = DOMAIN port.doc.settings]
                [] port.pc = "saveSetting" ->
                     [port EXCEPT !.pc = "imported"]
    /\ UNCHANGED <<managerVars, now, advances, trackerVars, flights, skipped, storeVars,
                   notifications, recalc>>

ExportStep ==
    \/ ExportCall
    \/ ExportGetAllTabs
    \/ ExportGetAllTimeIntervals
    \/ ExportGetAllSiteLimits
    \/ ExportGetAllSettings

ClearStep ==
    \/ ClearTabs
    \/ ClearTimeIntervals
    \/ ClearSiteLimits
    \/ ClearSettings

PortStep ==
    \/ ExportCall
    \/ ExportGetAllTabs
    \/ ExportGetAllTimeIntervals
    \/ ExportGetAllSiteLimits
    \/ ExportGetAllSettings
    \/ ClearTabs
    \/ ClearTimeIntervals
    \/ ClearSiteLimits
    \/ ClearSettings
    \/ \E doc \in FileDocs \cup {port.doc} : ImportCall(doc)
    \/ \E tab \in port.pending : ImportSaveTab(tab)
    \/ \E interval \in port.pending : ImportSaveTimeInterval(interval)
    \/ \E limit \in port.pending : ImportSaveSiteLimit(limit)
    \/ \E key \in port.pending : ImportSaveSetting(key)
    \/ ImportAwait

-----------------------------------------------------------------------------
(* Specifications *)

Init ==
    /\ now = ClockStart
    /\ advances = 0
    /\ currentTab = <<>>
    /\ currentStartTime = 0
    /\ flights = <<>>
    /\ skipped = 0
    /\ tabs = EmptyStore
    /\ intervals = EmptyStore
    /\ limits = EmptyStore
    /\ settings = EmptyStore
    /\ notifications = <<>>
    /\ recalc = NoRecalc
    /\ port = NoPort
    /\ session = 0
    /\ db = <<>>
    /\ inits = <<>>

\* No flush is waiting for storage.
Quiet == \A i \in 1..Len(flights) : flights[i].pc = "done"

\* The listeners may run when the number of flushes stays within max and the
\* number of discarded intervals within maxSkipped.
MayFlush(max, maxSkipped) ==
    \/ ~Tracking
    \/ WouldFlush /\ Len(flights) < max
    \/ ~WouldFlush /\ skipped < maxSkipped

\* Listeners, flushes, recalculate, deleteTab and limit writes, interleaved at
\* every await; every session closed lasts a second or more.
Next ==
    \/ MayFlush(MaxFlights, 0) /\ Signal
    \/ advances < MaxAdvance /\ \E d \in Deltas : Advance(d)
    \/ \E i \in 1..Len(flights) : FlushStep(i)
    \/ \E url \in Sites : RecalculateCall(url)
    \/ RecalculateStep
    \/ \E url \in Sites : DeleteTab(url)
    \/ \E limit \in LimitInputs : SaveSiteLimit(limit)

Spec == Init /\ [][Next]_vars

\* Concurrent flushes alone.
NextMerge ==
    \/ MayFlush(MaxFlights, 0) /\ Signal
    \/ advances < MaxAdvance /\ \E d \in Deltas : Advance(d)
    \/ \E i \in 1..Len(flights) : FlushStep(i)
    \/ \E limit \in LimitInputs : SaveSiteLimit(limit)

SpecMerge == Init /\ [][NextMerge]_vars

RecalcIdle == recalc.pc \in {"idle", "done"}

\* Sequential flushes, deletions and recalculations: each runs when every
\* earlier operation has completed.
NextRepair ==
    \/ Quiet /\ RecalcIdle /\ MayFlush(MaxFlights, 0) /\ Signal
    \/ Quiet /\ RecalcIdle /\ advances < MaxAdvance /\ \E d \in Deltas : Advance(d)
    \/ RecalcIdle /\ \E i \in 1..Len(flights) : FlushStep(i)
    \/ flights = <<>> /\ \E limit \in LimitInputs : SaveSiteLimit(limit)
    \/ Quiet /\ \E url \in Sites : RecalculateCall(url)
    \/ RecalculateStep
    \/ Quiet /\ RecalcIdle /\ \E url \in Sites : DeleteTab(url)
    \/ Quiet /\ RecalcIdle /\ \E id \in DOMAIN intervals : DeleteTimeInterval(id)

SpecRepair == Init /\ [][NextRepair]_vars

\* Sequential flushes fill the stores; then the page exports, clears and
\* imports the document, or imports a file.
NextPort ==
    \/ port.pc = "idle" /\ Quiet /\ MayFlush(MaxFlights, 0) /\ Signal
    \/ port.pc = "idle" /\ Quiet /\ advances < MaxAdvance /\ \E d \in Deltas : Advance(d)
    \/ \E i \in 1..Len(flights) : FlushStep(i)
    \/ flights = <<>> /\ port.pc = "idle" /\ \E limit \in LimitInputs : SaveSiteLimit(limit)
    \/ Quiet /\ PortStep

SpecPort == Init /\ [][NextPort]_vars

\* Sequential flushes: a listener runs, and time passes, only when every
\* earlier flush has completed; the limit is configured before the first.
NextSeq ==
    \/ Quiet /\ MayFlush(MaxFlightsSeq, MaxSkipped) /\ Signal
    \/ Quiet /\ advances < MaxAdvanceSeq /\ \E d \in Deltas : Advance(d)
    \/ \E i \in 1..Len(flights) : FlushStep(i)
    \/ flights = <<>> /\ \E limit \in LimitInputs : SaveSiteLimit(limit)

SpecSeq == Init /\ [][NextSeq]_vars

\* The listeners against storage that may fail: signals arrive and time
\* passes while flushes wait for storage, and a storage write may reject;
\* every session closed lasts a second or more.
NextTrack ==
    \/ MayFlush(MaxFlights, 0) /\ Signal
    \/ advances < MaxAdvance /\ \E d \in TrackDeltas : Advance(d)
    \/ \E i \in 1..Len(flights) : FlushStep(i)
    \/ \E i \in 1..Len(flights) : FlushFails(i)

SpecTrack == Init /\ [][NextTrack]_vars

\* The page exports and clears all data while the tracker runs: the requests
\* of clearAllData interleave with those of the flushes in flight.
NextClear ==
    \/ MayFlush(MaxFlights, 0) /\ Signal
    \/ advances < MaxAdvance /\ \E d \in Deltas : Advance(d)
    \/ \E i \in 1..Len(flights) : FlushStep(i)
    \/ Quiet /\ ExportStep
    \/ ClearStep

SpecClear == Init /\ [][NextClear]_vars

\* Sequential flushes while the user edits and deletes limits at any moment,
\* also between the requests of a flush.
NextLimits ==
    \/ Quiet /\ MayFlush(MaxFlights, 0) /\ Signal
    \/ Quiet /\ advances < MaxAdvanceSeq /\ \E d \in Deltas : Advance(d)
    \/ \E i \in 1..Len(flights) : FlushStep(i)
    \/ UserLimitStep

SpecLimits == Init /\ [][NextLimits]_vars

\* The options page and the worker's start: operations of one StorageManager
\* begin while earlier ones still wait for the database.
NextOptions ==
    \/ Len(inits) < MaxInits /\ InitializeStorage
    \/ Len(inits) < MaxInits /\ \E values \in FormValues : HandleSubmit(values)
    \/ \E i \in 1..Len(inits) : InitBuilt(i)
    \/ \E i \in 1..Len(inits) : InitContinue(i)

SpecOptions == Init /\ [][NextOptions]_vars

-----------------------------------------------------------------------------
(* Properties *)

FlushesOf(url) ==
    {i \in 1..Len(flights) : normalizeUrl(flights[i].tabInfo.url) = url}

RECURSIVE SumFlushes(_)
SumFlushes(S) ==
    IF S = {} THEN 0
    ELSE LET i == CHOOSE x \in S : TRUE
         IN  flights[i].interval.duration + SumFlushes(S \ {i})

FlushDates(url) == {flights[i].today : i \in FlushesOf(url)}

FlushesOn(url, date) == {i \in FlushesOf(url) : flights[i].today = date}

\* C1: after sequential flushes for one site key, the stored aggregate has
\* totalSeconds = the sum of the flushed durations and totalSessions = their
\* number, and each date's bucket holds the sum and count of the flushes made
\* on that date.
C1_AggregateIsSumOfFlushes ==
    Quiet =>
        \A url \in Sites :
            FlushesOf(url) # {} =>
                /\ url \in DOMAIN tabs
                /\ tabs[url].summaryTime = SumFlushes(FlushesOf(url))
                /\ tabs[url].counter = Cardinality(FlushesOf(url))
                /\ DOMAIN tabs[url].days = FlushDates(url)
                /\ \A d \in FlushDates(url) :
                      /\ tabs[url].days[d].summary = SumFlushes(FlushesOn(url, d))
                      /\ tabs[url].days[d].counter = Cardinality(FlushesOn(url, d))

\* C2: when flushes for one site key are in flight at once, no merge's
\* contribution is lost: once all have completed the stored totals are at
\* least the sum and the number of the flushes, as they are when the merges
\* are applied one at a time.
C2_NoMergeLost ==
    Quiet =>
        \A url \in Sites :
            FlushesOf(url) # {} =>
                /\ url \in DOMAIN tabs
                /\ tabs[url].summaryTime >= SumFlushes(FlushesOf(url))
                /\ tabs[url].counter >= Cardinality(FlushesOf(url))

\* C3: every stored aggregate has totalSeconds = the sum of its buckets'
\* seconds and totalSessions = the sum of its buckets' sessions.
C3_TotalsAreBucketSums ==
    \A url \in DOMAIN tabs :
        /\ tabs[url].summaryTime = SumOver(tabs[url].days, DOMAIN tabs[url].days, "summary")
        /\ tabs[url].counter = SumOver(tabs[url].days, DOMAIN tabs[url].days, "counter")

\* C4: while the current session is shorter than one second no step starts a
\* flush, so closing it appends no interval and merges nothing: with no other
\* flush in flight the interval store and the aggregates stay as they are.
C4_SubSecondSessionWritesNothing ==
    [][(Tracking /\ Duration(currentStartTime, now) < 1) =>
          /\ Len(flights') = Len(flights)
          /\ Quiet => (intervals' = intervals /\ tabs' = tabs)]_vars

\* Two sub-second sessions were closed and nothing is stored.
C4_Witness ==
    /\ skipped = 2
    /\ ~Tracking
    /\ flights = <<>>
    /\ DOMAIN intervals = {}
    /\ DOMAIN tabs = {}

\* C5: for a given (siteKey, date) the limit notification is raised at most
\* once, however many later flushes keep that day's bucket at or above the
\* threshold.
C5_NotifiedOncePerSiteAndDate ==
    \A m, n \in 1..Len(notifications) :
        (/\ notifications[m].url = notifications[n].url
         /\ notifications[m].date = notifications[n].date) => m = n

\* The seconds flushed for flush i's site on flush i's date, up to flush i.
CumulativeAt(i) ==
    SumFlushes({j \in FlushesOn(normalizeUrl(flights[i].tabInfo.url), flights[i].today) :
                  j <= i})

NotifiedBy(i) == \E n \in 1..Len(notifications) : notifications[n].flight = i

\* C6: with an enabled limit of L minutes and sequential flushes, the
\* notification fires on the flush at which the seconds flushed for the date
\* first reach L*60, and on no flush before it.
C6_NotifiedWhenThresholdReached ==
    \A url \in DOMAIN limits :
        (limits[url].enabled /\ NotificationsOn) =>
            \A i \in FlushesOf(url) :
                flights[i].pc = "done" =>
                    /\ NotifiedBy(i) =>
                          CumulativeAt(i) >= limits[url].dailyLimit * SecondsPerMinute
                    /\ (/\ CumulativeAt(i) >= limits[url].dailyLimit * SecondsPerMinute
                        /\ \A j \in FlushesOn(url, flights[i].today) :
                              j < i => CumulativeAt(j) < limits[url].dailyLimit * SecondsPerMinute)
                       => NotifiedBy(i)

\* C7: exportData followed by importData of the exported document into an
\* empty store yields an aggregate store field-for-field equal to the
\* original.
C7_ExportImportRestoresAggregates ==
    (port.pc = "imported" /\ port.exported) => tabs = port.original

\* A store holding an aggregate with two sessions was exported, cleared and
\* imported again.
C7_Witness ==
    /\ port.pc = "imported"
    /\ port.exported
    /\ "a.com" \in DOMAIN port.original
    /\ port.original["a.com"].counter > 1
    /\ "a.com" \in DOMAIN tabs

\* The aggregate stored for url, a zeroed one when there is no record.
StoredAggregate(url) ==
    IF url \in DOMAIN tabs THEN tabs[url]
    ELSE [url |-> url, favicon |-> <<>>, summaryTime |-> 0, counter |-> 0,
          days |-> EmptyStore]

\* The aggregate of url is the fold of the intervals stored for url.
AggregateIsFold(url) ==
    LET ivs == IntervalsByTab(url)
        dates == {iv.date[1] : iv \in ivs}
        agg == StoredAggregate(url)
    IN  /\ agg.summaryTime = SumDuration(ivs)
        /\ agg.counter = Cardinality(ivs)
        /\ DOMAIN agg.days = dates
        /\ \A d \in dates :
              /\ agg.days[d].summary = SumDuration({iv \in ivs : iv.date = <<d>>})
              /\ agg.days[d].counter = Cardinality({iv \in ivs : iv.date = <<d>>})

\* C8: when recalculate(siteKey) completes, whatever the store held, the
\* stored aggregate for siteKey is the fold of the intervals stored for it.
C8_RecalculateRebuildsFromIntervals ==
    [][(recalc.pc # "done" /\ recalc'.pc = "done") => AggregateIsFold(recalc.url)']_vars

\* C9: an interval whose id, siteKey, startedAt or date is missing is rejected
\* before any storage write, so every stored interval has all four.
C9_NoInvalidIntervalStored ==
    \A id \in DOMAIN intervals :
        /\ intervals[id].id # <<>>
        /\ intervals[id].tabId # <<>>
        /\ intervals[id].startTime # <<>>
        /\ intervals[id].date # <<>>

ImportEnded == port.pc \in {"imported", "rejected"}

\* C10: importData processes the records independently: it ends by resolving
\* (reporting the number skipped) with every valid record of the document
\* stored and every invalid interval skipped.
C10_ImportSkipsOnlyInvalidRecords ==
    ImportEnded =>
        /\ port.pc = "imported"
        /\ \A tab \in port.doc.tabs : Opt(tabs, tab.url) = <<tab>>
        /\ \A iv \in port.doc.timeIntervals :
              validateTimeInterval(iv) <=>
                  (iv.id # <<>> /\ Opt(intervals, iv.id[1]) = <<iv>>)
        /\ \A limit \in port.doc.siteLimits : Opt(limits, limit.url) = <<limit>>
        /\ \A key \in DOMAIN port.doc.settings :
              Opt(settings, key) = <<port.doc.settings[key]>>

\* C11: init is idempotent: whatever the interleaving of the operations that
\* call it, Database.build is called, and the handle assigned, at most once.
C11_InitOpensOnce ==
    Cardinality({i \in 1..Len(inits) : inits[i].built}) <= 1

\* C13: the key under which the limits form stores a limit for a URL is the
\* key under which a flush of a session on that URL looks the limit up, the
\* bare hostname.
C13_FormKeyIsFlushKey ==
    [][\A values \in FormValues :
          (HandleSubmit(values) /\ sanitizeUrl(values.url) # "") =>
              inits'[Len(inits')].then[1].url = normalizeUrl(values.url)]_vars

\* C12: a failed interval append or aggregate write is caught inside the
\* flush: its promise is not rejected, the step leaves the session state as
\* the signal handler set it, and that state was set when the flush began
\* (Idle, or rolled forward to now), whatever the flush's fate.
C12_FlushFailureIsContained ==
    [][/\ \A i \in 1..Len(flights) :
             FlushFails(i) => (flights'[i].pc = "done" /\ UNCHANGED trackerVars)
       /\ Len(flights') > Len(flights) => (~Tracking' \/ currentStartTime' = now)]_vars

\* A flush failed at the aggregate write, and the flush of a later session
\* stored its interval and its aggregate.
C12_Witness ==
    /\ Len(flights) = 2
    /\ flights[1].error = <<"saveOrUpdateTab">>
    /\ flights[2].pc = "done" /\ flights[2].error = <<>>
    /\ flights[2].interval.id[1] \in DOMAIN intervals
    /\ normalizeUrl(flights[2].tabInfo.url) \in DOMAIN tabs
    /\ ~Tracking

InFlight(f) == f.pc \notin {"done", "rejected"}

\* C14: no two flushes of one session are in flight at once: a flush begins
\* only when every earlier flush of its session has completed.
C14_OneFlushInFlightPerSession ==
    \A i, j \in 1..Len(flights) :
        (i < j /\ flights[i].session = flights[j].session) =>
            ~(InFlight(flights[i]) /\ InFlight(flights[j]))

Appended(f) == f.pc # "saveTimeInterval"

Written(f) == f.pc \in {"getSiteLimit", "getAllSettings", "saveSiteLimit", "done"}

\* C15: for one site, the interval appends and the aggregate writes take
\* effect in the order the flushes were triggered.
C15_FlushesTakeEffectInOrder ==
    \A i, j \in 1..Len(flights) :
        (i < j /\ normalizeUrl(flights[i].tabInfo.url) = normalizeUrl(flights[j].tabInfo.url)) =>
            /\ Appended(flights[j]) => Appended(flights[i])
            /\ Written(flights[j]) => Written(flights[i])

\* C16: the [startTime, endTime] ranges of the intervals produced share no
\* instant beyond an end point, whatever the interleaving of ticks,
\* activations, focus losses and removals.
C16_IntervalsDoNotOverlap ==
    \A i, j \in 1..Len(flights) :
        i < j => flights[i].interval.endTime[1] <= flights[j].interval.startTime[1]

\* A tick flushed part of a session and a removal flushed the rest.
C16_Witness ==
    /\ Len(flights) = 2
    /\ flights[1].session = flights[2].session
    /\ flights[2].interval.startTime = flights[1].interval.endTime
    /\ ~Tracking

\* C17: a tick at t in a session started at s flushes [s, t] and keeps the
\* tracker on the same tab with start t, so the flushes of one session cover
\* adjoining ranges.
C17_TickRollsSessionForward ==
    [][OnAlarm =>
          /\ currentTab' = currentTab
          /\ currentStartTime' = now
          /\ WouldFlush =>
                /\ Len(flights') = Len(flights) + 1
                /\ flights'[Len(flights')].interval.startTime = <<currentStartTime>>
                /\ flights'[Len(flights')].interval.endTime = <<now>>
                /\ flights'[Len(flights')].interval.url = <<normalizeUrl(currentTab[1].url)>>
          /\ \A i \in 1..(Len(flights') - 1) :
                flights'[i].session = flights'[i + 1].session =>
                    flights'[i + 1].interval.startTime = flights'[i].interval.endTime]_vars

\* A 150 s session with a tick 60 s in: exactly two intervals, 60 s and 90 s.
C17_Witness ==
    /\ Len(flights) = 2
    /\ flights[1].session = flights[2].session
    /\ flights[1].interval.duration = 60
    /\ flights[2].interval.duration = 90
    /\ flights[2].interval.endTime[1] - flights[1].interval.startTime[1] = 150 * MsPerSecond
    /\ ~Tracking

\* C18: a tick that arrives less than the flush interval after the session
\* started or was last flushed produces no interval and leaves the session's
\* start unchanged.
C18_EarlyTickDoesNothing ==
    [][(OnAlarm /\ now - currentStartTime < FlushInterval) =>
          (flights' = flights /\ currentStartTime' = currentStartTime)]_vars

\* C19: an activation of a trackable tab while a session is open flushes that
\* session up to now, under its own site key and start time, and opens a
\* session on the new tab starting now.
C19_ActivationFlushesOldSession ==
    [][\A tab \in ChromeTabs :
          (Tracking /\ ~Ignored(tab) /\ (OnActivated(tab) \/ OnFocusGained(tab))) =>
              /\ currentTab' = <<tab>>
              /\ currentStartTime' = now
              /\ WouldFlush =>
                    /\ Len(flights') = Len(flights) + 1
                    /\ flights'[Len(flights')].interval.url = <<normalizeUrl(currentTab[1].url)>>
                    /\ flights'[Len(flights')].interval.tabId = <<normalizeUrl(currentTab[1].url)>>
                    /\ flights'[Len(flights')].interval.startTime = <<currentStartTime>>
                    /\ flights'[Len(flights')].interval.endTime = <<now>>]_vars

\* A session on a.com was flushed by the activation of b.com's tab.
C19_Witness ==
    /\ Len(flights) = 1
    /\ flights[1].interval.url = <<"a.com">>
    /\ Tracking
    /\ normalizeUrl(currentTab[1].url) = "b.com"
    /\ currentStartTime = flights[1].interval.endTime[1]

\* C20: no activation of an ignored tab, by tab activation, tab update or
\* window focus, can leave a session open.
C20_IgnoredActivationLeavesIdle ==
    \A tab \in ChromeTabs :
        Ignored(tab) => ~ENABLED ((OnActivated(tab) \/ OnFocusGained(tab)) /\ Tracking')

\* C21: the tracker never holds a session on an ignored site (an internal
\* scheme, or a tab without a url), and no flush, interval or aggregate is
\* ever made for one: every site tracked or recorded is a web host.
C21_NeverActiveOnIgnoredSite ==
    /\ currentTab # <<>> =>
          (currentTab[1].url.protocol \in {"http:", "https:"}
           /\ normalizeUrl(currentTab[1].url) \in Sites)
    /\ \A i \in 1..Len(flights) : normalizeUrl(flights[i].tabInfo.url) \in Sites
    /\ \A iv \in Range(intervals) : iv.url[1] \in Sites
    /\ DOMAIN tabs \subseteq Sites

\* The one session opened, on a.com, was closed and recorded, the tracker is
\* Idle, and focus on a chrome:// tab would leave it so.
C21_Witness ==
    /\ ~Tracking
    /\ session = 1
    /\ Len(flights) = 1 /\ flights[1].pc = "done" /\ flights[1].error = <<>>
    /\ DOMAIN tabs = {"a.com"}
    /\ \A tab \in ChromeTabs : Ignored(tab) => ~ENABLED (OnFocusGained(tab) /\ Tracking')

\* The flush a closing signal spawns: the open session, from its start to now.
ClosingFlush(f) ==
    /\ f.tabInfo = currentTab[1]
    /\ f.interval.startTime = <<currentStartTime>>
    /\ f.interval.endTime = <<now>>

\* C22: a removal flushes the session and leaves the tracker Idle exactly
\* when the removed tab is the current one; the removal of another tab, or a
\* removal while Idle, changes nothing.
C22_RemovalClosesOnlyItsSession ==
    [][\A tab \in ChromeTabs :
          /\ OnRemoved(tab.id) =>
                /\ currentTab # <<>> /\ currentTab[1].id = tab.id
                /\ currentTab' = <<>> /\ currentStartTime' = 0
                /\ WouldFlush => (Len(flights') = Len(flights) + 1
                                  /\ ClosingFlush(flights'[Len(flights')]))
          /\ (currentTab = <<>> \/ currentTab[1].id # tab.id) =>
                ~ENABLED (OnRemoved(tab.id) /\ vars' # vars)]_vars

\* The session on b.com's tab was closed when that tab was removed.
C22_Witness ==
    /\ ~Tracking
    /\ session = 1
    /\ Len(flights) = 1 /\ flights[1].tabInfo.id = 2
    /\ flights[1].pc = "saveTimeInterval"
    /\ flights[1].interval.endTime = <<now>>

\* C23: a focus loss during a session flushes it up to now and leaves the
\* tracker Idle; while Idle it produces nothing and the tracker stays Idle.
C23_FocusLossClosesSession ==
    [][OnFocusLost =>
          /\ currentTab' = <<>> /\ currentStartTime' = 0
          /\ WouldFlush => (Len(flights') = Len(flights) + 1
                            /\ ClosingFlush(flights'[Len(flights')]))
          /\ ~Tracking => (flights' = flights /\ skipped' = skipped)]_vars

\* The session on a.com's tab was closed by a focus loss 90 s after it began.
C23_Witness ==
    /\ ~Tracking
    /\ session = 1
    /\ Len(flights) = 1 /\ flights[1].tabInfo.id = 1
    /\ flights[1].pc = "saveTimeInterval"
    /\ flights[1].interval.endTime = <<now>>
    /\ flights[1].interval.duration = 90

\* C24: in a flush the aggregate is written only after the flush's interval
\* was stored, the limit is read only after the flush's aggregate was
\* written, and a flush whose append failed never goes on to the merge.
C24_AppendThenMergeThenLimit ==
    [][\A i \in 1..Len(flights) :
          /\ (FlushReadExisting(i) \/ FlushUpdateTab(i)) =>
                (flights[i].error = <<>> /\ flights[i].interval.id[1] \in DOMAIN intervals)
          /\ FlushGetSiteLimit(i) =>
                /\ flights[i].interval.id[1] \in DOMAIN intervals
                /\ normalizeUrl(flights[i].tabInfo.url) \in DOMAIN tabs
                /\ tabs[normalizeUrl(flights[i].tabInfo.url)].counter >= 1]_vars

\* A flush whose append failed left no interval and no aggregate, and a later
\* flush for the other site went through its three steps.
C24_Witness ==
    /\ Len(flights) = 2
    /\ flights[1].error = <<"saveTimeInterval">>
    /\ flights[2].pc = "done" /\ flights[2].error = <<>>
    /\ DOMAIN intervals = {flights[2].interval.id[1]}
    /\ DOMAIN tabs = {normalizeUrl(flights[2].tabInfo.url)}
    /\ normalizeUrl(flights[1].tabInfo.url) \notin DOMAIN tabs

\* C25: the date stored on an interval is the calendar day of its start time,
\* also when the session is flushed on the day after it started.
C25_IntervalDateIsStartDay ==
    \A iv \in Range(intervals) :
        (iv.date # <<>> /\ iv.startTime # <<>>) => iv.date[1] = iv.startTime[1] \div MsPerDay

\* The flush has read the date of the bucket it updates.
HasBucketDate(f) ==
    f.pc \in {"saveOrUpdateTab", "updateTab", "getSiteLimit", "getAllSettings", "saveSiteLimit"}
    \/ (f.pc = "done" /\ f.error = <<>>)

\* C29: within one flush the date stored on the interval is the date of the
\* daily bucket the flush's merge updates, also when the day changes while
\* the flush waits for storage.
C29_IntervalDateIsBucketDate ==
    \A i \in 1..Len(flights) :
        HasBucketDate(flights[i]) => flights[i].interval.date = <<flights[i].today>>

C28_BlockWritesOnlyBlocked ==
    [][\A i \in 1..Len(flights) :
          FlushSaveSiteLimit(i) =>
              /\ flights[i].limit[1].url \in DOMAIN limits
              /\ limits' = [limits EXCEPT ![flights[i].limit[1].url].blocked = TRUE]]_vars

\* C26: a stored interval is never modified: whatever the step, an interval
\* that stays in the store keeps every field; it can only be removed.
C26_StoredIntervalsImmutable ==
    [][\A id \in DOMAIN intervals :
          id \in DOMAIN intervals' => intervals'[id] = intervals[id]]_vars

\* The flushes that had not completed when clearAllData was called.
LateFlushes == {i \in 1..Len(flights) : i \notin port.before}

\* C30: once clearAllData has resolved and the flushes in flight during it
\* have completed, no aggregate holds seconds, sessions or day buckets of a
\* flush that had completed before the clear began.  Stated where at most one
\* flush completed after the clear began, so that no two merges meet: the
\* aggregates then hold that flush's contribution and nothing else.
C30_ClearedDataStaysDeleted ==
    (port.pc = "cleared" /\ Quiet /\ Cardinality(LateFlushes) <= 1) =>
        \A url \in DOMAIN tabs :
            \E i \in LateFlushes :
                /\ normalizeUrl(flights[i].tabInfo.url) = url
                /\ tabs[url].counter = 1
                /\ tabs[url].summaryTime = flights[i].interval.duration
                /\ DOMAIN tabs[url].days = {flights[i].today}

=============================================================================
